---- MODULE Spec2Model ----
(***************************************************************************)
(* examples/scene_viewer.rs of bevy_mod_fbx: the two per-frame systems     *)
(* update_lights and camera_controller, the state setup() creates for      *)
(* them, and the engine's frame loop that feeds them time and input.       *)
(*                                                                         *)
(* Numbers.  The program computes in f32.  Here an f32 is a decimal        *)
(* fixed-point number: the integer n stands for n / ONE, and every         *)
(* multiplication and division rounds to the nearest representable value,  *)
(* ties to even, as IEEE arithmetic does.  Angles are radians in the same  *)
(* representation.  A Quat is represented by the YXZ Euler angles of the   *)
(* rotation it denotes, normalised as Quat::to_euler returns them.         *)
(***************************************************************************)
EXTENDS Integers, Sequences, FiniteSets, TLC

\* ------------------------------------------------------------ f32 numbers

\* 1.0
ONE == 10000

Abs(a) == IF a < 0 THEN -a ELSE a

Sign(a) == IF a < 0 THEN -1 ELSE IF a > 0 THEN 1 ELSE 0

\* n / d for d > 0, rounded to the nearest integer, ties to even.
RoundDiv(n, d) ==
    LET q == n \div d
        r == n % d
    IN  IF 2 * r < d THEN q
        ELSE IF 2 * r > d THEN q + 1
        ELSE IF q % 2 = 0 THEN q ELSE q + 1

\* a * b of two f32 values.  a is split into whole and fractional part so
\* that no intermediate product leaves the 32-bit integers.
Mul(a, b) ==
    LET q == a \div ONE
        r == a % ONE
    IN  q * b + RoundDiv(r * b, ONE)

\* a / b of two f32 values, b # 0.
Div(a, b) ==
    LET q == a \div Abs(b)
        r == a % Abs(b)
    IN  Sign(b) * (q * ONE + RoundDiv(r * ONE, Abs(b)))

\* f32::clamp
Clamp(a, lo, hi) == IF a < lo THEN lo ELSE IF a > hi THEN hi ELSE a

\* The largest r with r * r <= n, by bisection on lo..hi.
RECURSIVE SqrtIter(_, _, _)
SqrtIter(n, lo, hi) ==
    IF lo >= hi THEN lo
    ELSE LET mid == (lo + hi + 1) \div 2
         IN  IF mid * mid <= n THEN SqrtIter(n, mid, hi)
             ELSE SqrtIter(n, lo, mid - 1)

\* f32::sqrt of a value in [0, 20].
Sqrt(a) == SqrtIter(a * ONE, 0, 5 * ONE)

\* std::f32::consts
PI == 31416
TAU == 2 * PI
FRAC_PI_2 == PI \div 2

\* An angle brought into (-PI, PI].
Wrap(a) == PI - ((PI - a) % TAU)

\* f32::sin, f32::cos.  Bhaskara's rational approximation
\* sin x = 16 x (PI - x) / (5 PI^2 - 4 x (PI - x)) on [0, PI], which is
\* within 0.002 of the sine.
SinHalf(x) ==
    LET p == x * (PI - x)
        d == ((PI * PI) \div 4) * 5 - p
    IN  RoundDiv(4 * p, d \div ONE)

Sin(a) == LET x == Wrap(a) IN IF x < 0 THEN -SinHalf(-x) ELSE SinHalf(x)

Cos(a) == Sin(a + FRAC_PI_2)

\* ------------------------------------------------------------ glam vectors

Vec2(x, y) == [x |-> x, y |-> y]

Vec3(x, y, z) == [x |-> x, y |-> y, z |-> z]

Vec2ZERO == Vec2(0, 0)

Vec3ZERO == Vec3(0, 0, 0)

Vec3ONE == Vec3(ONE, ONE, ONE)

Vec3Y == Vec3(0, ONE, 0)

\* Vec3 + Vec3
VAdd(a, b) == Vec3(a.x + b.x, a.y + b.y, a.z + b.z)

\* f32 * Vec3 and Vec3 * f32
VScale(s, v) == Vec3(Mul(v.x, s), Mul(v.y, s), Mul(v.z, s))

\* Vec3::length of a vector of components within [-2, 2].
Length(v) == Sqrt(Mul(v.x, v.x) + Mul(v.y, v.y) + Mul(v.z, v.z))

\* Vec3::normalize: the vector times the reciprocal of its length.
Normalize(v) == VScale(Div(ONE, Length(v)), v)

\* ------------------------------------------------------------ glam Quat

\* A rotation, as the angles Quat::to_euler(EulerRot::YXZ) returns for it:
\* yaw in (-PI, PI] about Y, then pitch in [-PI/2, PI/2] about X, then roll
\* in (-PI, PI] about Z.
Quat(yaw, pitch, roll) == [yaw |-> yaw, pitch |-> pitch, roll |-> roll]

QuatIDENTITY == Quat(0, 0, 0)

\* Quat::from_euler(EulerRot::ZYX, 0.0, y, x), the only form the program
\* calls: the rotation Ry(y) * Rx(x).  An x beyond a quarter turn denotes
\* the same rotation as yaw y + PI, pitch PI - x, roll PI.
from_euler_ZYX(z, y, x) ==
    LET p == Wrap(x)
    IN  IF p > FRAC_PI_2 THEN Quat(Wrap(y + PI), PI - p, PI)
        ELSE IF p < -FRAC_PI_2 THEN Quat(Wrap(y + PI), -PI - p, PI)
        ELSE Quat(Wrap(y), p, z)

\* Quat::to_euler(EulerRot::YXZ): (yaw, pitch, roll)
to_euler_YXZ(q) == <<q.yaw, q.pitch, q.roll>>

\* Transform::right(): rotation * Vec3::X
right(t) ==
    LET q == t.rotation
    IN  Vec3(Mul(Cos(q.roll), Cos(q.yaw))
               + Mul(Mul(Sin(q.roll), Sin(q.pitch)), Sin(q.yaw)),
             Mul(Sin(q.roll), Cos(q.pitch)),
             Mul(Mul(Sin(q.roll), Sin(q.pitch)), Cos(q.yaw))
               - Mul(Cos(q.roll), Sin(q.yaw)))

\* Transform::forward(): rotation * -Vec3::Z
forward(t) ==
    LET q == t.rotation
    IN  Vec3(-Mul(Cos(q.pitch), Sin(q.yaw)),
             Sin(q.pitch),
             -Mul(Cos(q.pitch), Cos(q.yaw)))

\* ------------------------------------------------------------ input

\* The KeyCodes the two systems read.
MoveKeys == {"W", "S", "A", "D", "E", "Q"}

FrustumKeys == {"Key5", "Key6", "Key7", "Key8", "Key9", "Key0"}

KeyCodes == MoveKeys \cup FrustumKeys \cup {"LShift", "M", "U", "L"}

\* Input<KeyCode>, Input<MouseButton> and the MouseMotion events of one
\* frame: the keys held, the keys that went down in this frame (held too),
\* whether MouseButton::Left is held, and the sum of the motion deltas the
\* EventReader yields.
Input(pressed, just, button, delta) ==
    [pressed |-> pressed \cup just, just_pressed |-> just,
     mouse_left |-> button, mouse_delta |-> delta]

NoInput == Input({}, {}, FALSE, Vec2ZERO)

\* The systems main() adds with add_system.
Systems == {"update_lights", "camera_controller"}

\* ------------------------------------------------------------ state

VARIABLES
    options,                    \* the camera's CameraController component
    transform,                  \* the camera's Transform
    move_toggled,               \* camera_controller's Local<bool>
    light,                      \* the DirectionalLight component
    light_transform,            \* the directional light's Transform
    animate_directional_light,  \* update_lights' Local<bool>
    time,                       \* Res<Time>
    input,                      \* this frame's key, button and motion input
    ran,                        \* the systems that have run in this frame
    toggle_log                  \* history: the frames that brought a press of
                                \* keyboard_key_enable_mouse, oldest first

vars == <<options, transform, move_toggled, light, light_transform,
          animate_directional_light, time, input, ran, toggle_log>>

camera_vars == <<options, transform, move_toggled>>

light_vars == <<light, light_transform, animate_directional_light>>

\* const SCALE_STEP: f32 = 0.1
SCALE_STEP == 1000

\* CameraController::default()
default_sensitivity == 5000
default_walk_speed == 50000
default_run_speed == 150000
default_friction == 5000

CameraController_default ==
    [enabled |-> TRUE, initialized |-> FALSE,
     sensitivity |-> default_sensitivity,
     key_forward |-> "W", key_back |-> "S", key_left |-> "A",
     key_right |-> "D", key_up |-> "E", key_down |-> "Q",
     key_run |-> "LShift", keyboard_key_enable_mouse |-> "M",
     walk_speed |-> default_walk_speed, run_speed |-> default_run_speed,
     friction |-> default_friction,
     pitch |-> 0, yaw |-> 0, velocity |-> Vec3ZERO]

\* Transform::from_xyz(10.0, 4.4, 3.0).looking_at(Vec3::ZERO, Vec3::Y):
\* the camera looks down the direction -(10, 4.4, 3) / 11.33, which is yaw
\* atan2(10, 3) = 1.2793 and pitch -asin(4.4 / 11.33) = -0.3988, no roll.
spawn_translation == Vec3(10 * ONE, 44000, 3 * ONE)

spawn_rotation == Quat(12793, -3988, 0)

\* Aabb::from(Sphere { center: Vec3A::ONE * 3.0, radius: 100.0 }): min and
\* max are the centre minus and plus the radius on every axis.
sphere_center == 3
sphere_radius == 100

aabb_min == (sphere_center - sphere_radius) * ONE

aabb_max == (sphere_center + sphere_radius) * ONE

\* fn setup: the camera with its controller, and the directional light.  The
\* camera's rotation and the controller's friction are what a caller of the
\* bundle may construct differently.
setup(rotation, friction) ==
    /\ options = [CameraController_default EXCEPT !.friction = friction]
    /\ transform = [translation |-> spawn_translation, rotation |-> rotation]
    /\ move_toggled = FALSE
    /\ light = [shadow_projection |->
                    [left |-> aabb_min, right |-> aabb_max,
                     bottom |-> aabb_min, top |-> aabb_max,
                     near |-> aabb_min, far |-> aabb_max],
                shadows_enabled |-> FALSE]
    /\ light_transform = [rotation |-> QuatIDENTITY]
    /\ animate_directional_light = FALSE
    /\ time = [delta_seconds |-> 0, seconds_since_startup |-> 0]
    /\ input = NoInput
    /\ ran = Systems
    /\ toggle_log = <<>>

\* ------------------------------------------------------------ the frame loop

\* One frame lasts DT / ONE seconds, or no measurable time at all.
DT == 200

\* App::run, one turn of the schedule: once the systems `systems` of the
\* previous frame have run, the engine advances Time by the frame's length
\* and replaces the input resources, and the frame's systems become due.
\* The frame's input is one of `inputs`, its length one of `dts`; the clock
\* stops at `ticks` frame lengths, which bounds every position.
BeginFrame(systems, inputs, dts, ticks) ==
    /\ systems \subseteq ran
    /\ \E in \in inputs, dt \in dts :
          /\ time.seconds_since_startup + dt <= ticks * DT
          /\ time' = [delta_seconds |-> dt,
                      seconds_since_startup |-> time.seconds_since_startup + dt]
          /\ input' = in
    /\ ran' = Systems \ systems
    /\ UNCHANGED <<camera_vars, light_vars, toggle_log>>

\* ------------------------------------------------------------ update_lights

\* projection_adjustment with the adjustment started from Vec3::ZERO in
\* place of Vec3::ONE.
projection_adjustment_from_zero(key_input) ==
    IF "Key5" \in key_input.just_pressed THEN Vec3(-SCALE_STEP, 0, 0)
    ELSE IF "Key9" \in key_input.just_pressed THEN Vec3(0, 0, -SCALE_STEP)
    ELSE Vec3ZERO

\* The if / else-if chain over the six frustum keys.
projection_adjustment(key_input) ==
    IF "Key5" \in key_input.just_pressed
        THEN Vec3(ONE - SCALE_STEP, ONE, ONE)
    ELSE IF "Key6" \in key_input.just_pressed
        THEN Vec3(ONE + SCALE_STEP, ONE, ONE)
    ELSE IF "Key7" \in key_input.just_pressed
        THEN Vec3(ONE, ONE - SCALE_STEP, ONE)
    ELSE IF "Key8" \in key_input.just_pressed
        THEN Vec3(ONE, ONE + SCALE_STEP, ONE)
    ELSE IF "Key9" \in key_input.just_pressed
        THEN Vec3(ONE, ONE, ONE - SCALE_STEP)
    ELSE IF "Key0" \in key_input.just_pressed
        THEN Vec3(ONE, ONE, ONE + SCALE_STEP)
    ELSE Vec3ONE

\* The six *= of the first loop.
scale_projection(p, adj) ==
    [left |-> Mul(p.left, adj.x), right |-> Mul(p.right, adj.x),
     bottom |-> Mul(p.bottom, adj.y), top |-> Mul(p.top, adj.y),
     near |-> Mul(p.near, adj.z), far |-> Mul(p.far, adj.z)]

\* toggle_shadows with `= true` in place of the negation.
toggle_shadows_on(enabled, key_input) ==
    IF "U" \in key_input.just_pressed THEN TRUE ELSE enabled

\* if key_input.just_pressed(KeyCode::U) { ... = !light.shadows_enabled }
toggle_shadows(enabled, key_input) ==
    IF "U" \in key_input.just_pressed THEN ~enabled ELSE enabled

\* toggle_animate with pressed in place of just_pressed.
toggle_animate_held(animate, key_input) ==
    IF "L" \in key_input.pressed THEN ~animate ELSE animate

\* if key_input.just_pressed(KeyCode::L) { *animate = !*animate }
toggle_animate(animate, key_input) ==
    IF "L" \in key_input.just_pressed THEN ~animate ELSE animate

\* Quat::from_euler(ZYX, 0.0, seconds_since_startup * TAU / 30.0, -TAU / 8.)
animated_rotation(t) ==
    from_euler_ZYX(0, Div(Mul(t.seconds_since_startup, TAU), 30 * ONE),
                   Div(-TAU, 8 * ONE))

\* if *animate_directional_light { transform.rotation = ... }
animate_transform(tf, animate, t) ==
    IF animate THEN [tf EXCEPT !.rotation = animated_rotation(t)] ELSE tf

update_lights ==
    /\ "update_lights" \notin ran
    /\ light' =
         [shadow_projection |->
              scale_projection(light.shadow_projection,
                               projection_adjustment(input)),
          shadows_enabled |-> toggle_shadows(light.shadows_enabled, input)]
    /\ animate_directional_light' =
         toggle_animate(animate_directional_light, input)
    /\ light_transform' =
         animate_transform(light_transform,
                           toggle_animate(animate_directional_light, input),
                           time)
    /\ ran' = ran \cup {"update_lights"}
    /\ UNCHANGED <<camera_vars, time, input, toggle_log>>

\* ------------------------------------------------------------ camera_controller

\* if !options.initialized { yaw, pitch from the rotation; initialized = true }
initialize(opts, tf) ==
    IF opts.initialized THEN opts
    ELSE LET e == to_euler_YXZ(tf.rotation)
         IN  [opts EXCEPT !.yaw = e[1], !.pitch = e[2], !.initialized = TRUE]

Held(key_input, key) == IF key \in key_input.pressed THEN ONE ELSE 0

\* "Handle key input": the six `if key_input.pressed(..)` on axis_input.
axis_input(opts, key_input) ==
    Vec3(Held(key_input, opts.key_right) - Held(key_input, opts.key_left),
         Held(key_input, opts.key_up) - Held(key_input, opts.key_down),
         Held(key_input, opts.key_forward) - Held(key_input, opts.key_back))

\* toggle_move with `= true` in place of the negation.
toggle_move_on(toggled, opts, key_input) ==
    IF opts.keyboard_key_enable_mouse \in key_input.just_pressed
    THEN TRUE ELSE toggled

\* if key_input.just_pressed(keyboard_key_enable_mouse) { toggle }
toggle_move(toggled, opts, key_input) ==
    IF opts.keyboard_key_enable_mouse \in key_input.just_pressed
    THEN ~toggled ELSE toggled

\* max_speed without the run key.
max_speed_walk(opts, key_input) == opts.walk_speed

\* let max_speed = if key_input.pressed(options.key_run) { run } else { walk }
max_speed(opts, key_input) ==
    IF opts.key_run \in key_input.pressed THEN opts.run_speed
    ELSE opts.walk_speed

\* velocity.length_squared() < 1e-6.  1e-6 is SNAP * SNAP / (ONE * ONE); a
\* component of SNAP or more already decides the comparison.
SNAP == 10

below_snap(v) ==
    /\ Abs(v.x) < SNAP
    /\ Abs(v.y) < SNAP
    /\ Abs(v.z) < SNAP
    /\ v.x * v.x + v.y * v.y + v.z * v.z < SNAP * SNAP

\* apply_friction without the snap to zero.
apply_friction_no_snap(opts) ==
    VScale(ONE - Clamp(opts.friction, 0, ONE), opts.velocity)

\* The else branch of "Apply movement update": friction, then the snap.
apply_friction(opts) ==
    LET friction == Clamp(opts.friction, 0, ONE)
        v == VScale(ONE - friction, opts.velocity)
    IN  IF below_snap(v) THEN Vec3ZERO ELSE v

\* "Apply movement update": the velocity the frame leaves.
movement_velocity(opts, key_input) ==
    IF axis_input(opts, key_input) # Vec3ZERO
    THEN VScale(max_speed(opts, key_input),
                Normalize(axis_input(opts, key_input)))
    ELSE apply_friction(opts)

\* transform.translation += v.x * dt * right + v.y * dt * Vec3::Y
\*                          + v.z * dt * forward
integrate(tf, v, dt) ==
    VAdd(tf.translation,
         VAdd(VAdd(VScale(Mul(v.x, dt), right(tf)),
                   VScale(Mul(v.y, dt), Vec3Y)),
              VScale(Mul(v.z, dt), forward(tf))))

\* mouse_delta without the test of button and toggle.
mouse_delta_always(opts, toggled, in) == in.mouse_delta

\* "Handle mouse input": the events are summed only while the button is
\* held or the toggle is on.
mouse_delta(opts, toggled, in) ==
    IF in.mouse_left \/ toggled THEN in.mouse_delta ELSE Vec2ZERO

\* 0.99 * FRAC_PI_2
pitch_limit == Mul(9900, FRAC_PI_2)

\* (options.pitch - delta.y * 0.5 * sensitivity * dt).clamp(-limit, limit)
look_pitch(opts, delta, dt) ==
    Clamp(opts.pitch - Mul(Mul(Mul(delta.y, 5000), opts.sensitivity), dt),
          -pitch_limit, pitch_limit)

\* options.yaw - delta.x * sensitivity * dt
look_yaw(opts, delta, dt) ==
    opts.yaw - Mul(Mul(delta.x, opts.sensitivity), dt)

\* The body after `if !options.enabled { return; }`.
enabled_update(opts, tf, toggled, in, t) ==
    LET toggled1 == toggle_move(toggled, opts, in)
        v == movement_velocity(opts, in)
        moved == [tf EXCEPT !.translation = integrate(tf, v, t.delta_seconds)]
        delta == mouse_delta(opts, toggled1, in)
        pitch == look_pitch(opts, delta, t.delta_seconds)
        yaw == look_yaw(opts, delta, t.delta_seconds)
    IN  IF delta # Vec2ZERO
        THEN [options |-> [opts EXCEPT !.velocity = v,
                                       !.pitch = pitch, !.yaw = yaw],
              transform |-> [moved EXCEPT
                                 !.rotation = from_euler_ZYX(0, yaw, pitch)],
              move_toggled |-> toggled1]
        ELSE [options |-> [opts EXCEPT !.velocity = v],
              transform |-> moved,
              move_toggled |-> toggled1]

\* controller_frame without `if !options.enabled { return; }`.
controller_frame_no_return(opts, tf, toggled, in, t) ==
    enabled_update(initialize(opts, tf), tf, toggled, in, t)

\* The whole of fn camera_controller: the one-time initialisation, the
\* return of a disabled controller, the update.
controller_frame(opts, tf, toggled, in, t) ==
    LET opts1 == initialize(opts, tf)
    IN  IF ~opts1.enabled
        THEN [options |-> opts1, transform |-> tf, move_toggled |-> toggled]
        ELSE enabled_update(opts1, tf, toggled, in, t)

\* At most MaxToggles frames with a press of the toggle key are logged.
MaxToggles == 3

camera_controller ==
    /\ "camera_controller" \notin ran
    /\ LET r == controller_frame(options, transform, move_toggled, input, time)
       IN  /\ options' = r.options
           /\ transform' = r.transform
           /\ move_toggled' = r.move_toggled
           /\ toggle_log' =
                IF options.keyboard_key_enable_mouse \in input.just_pressed
                   /\ Len(toggle_log) < MaxToggles
                THEN Append(toggle_log,
                            [enabled |-> options.enabled,
                             before |-> move_toggled,
                             after |-> r.move_toggled])
                ELSE toggle_log
    /\ ran' = ran \cup {"camera_controller"}
    /\ UNCHANGED <<light_vars, time, input>>

\* CameraController::enabled is a pub field no system of this file writes:
\* whoever owns the component may set it before the controller's turn.
set_enabled ==
    /\ "camera_controller" \notin ran
    /\ options' = [options EXCEPT !.enabled = ~options.enabled]
    /\ UNCHANGED <<transform, move_toggled, light_vars, time, input, ran,
                   toggle_log>>

\* ------------------------------------------------------------ specifications

\* The schedule gives a system that is due its turn: the step that adds it
\* to the systems that have run, which only the system itself takes.
Turn(system) == system \notin ran /\ ran' = ran \cup {system}

Keys(just) == Input({}, just, FALSE, Vec2ZERO)

Hold(pressed) == Input(pressed, {}, FALSE, Vec2ZERO)

\* The program as main() builds it: both systems, once per frame each, in
\* either order.
MaxTicks == 3

FrameInputs ==
    {NoInput, Hold({"W"}), Hold({"D", "E", "LShift"}),
     Keys({"L"}), Keys({"U"}), Keys({"Key5"}), Keys({"Key8", "U", "L"}),
     Hold({"L", "U", "M", "Key5"}),
     Input({"W"}, {"M"}, FALSE, Vec2(3 * ONE, -2 * ONE)),
     Input({}, {}, TRUE, Vec2(-40 * ONE, 25 * ONE))}

Init == setup(spawn_rotation, default_friction)

Frame == BeginFrame(Systems, FrameInputs, {DT}, MaxTicks)

Next == Frame \/ update_lights \/ camera_controller

Spec == Init /\ [][Next]_vars

\* update_lights alone, under every combination of up to two of its keys
\* and some larger ones.  Frustum keys come only while every bound is
\* within MinBound..MaxBound, which keeps the bounds in a finite range.
LightTicks == 2
MinBound == 80
MaxBound == 125

LightKeys == FrustumKeys \cup {"U", "L"}

InWindow ==
    \A b \in {"left", "right", "bottom", "top", "near", "far"} :
        /\ Abs(light.shadow_projection[b]) >= MinBound * ONE
        /\ Abs(light.shadow_projection[b]) <= MaxBound * ONE

LightInputs ==
    {Hold({"U", "L", "Key6"})} \cup
    {Keys(k) : k \in {j \in SUBSET LightKeys :
                         /\ \/ Cardinality(j) <= 2
                            \/ j = {"Key7", "U", "L"}
                            \/ j \in {{"Key5", "Key7", "Key9"},
                                      {"Key6", "Key8", "Key0", "U"},
                                      LightKeys}
                         /\ j \cap FrustumKeys # {} => InWindow}}

LightFrame == BeginFrame({"update_lights"}, LightInputs, {DT, 2 * DT}, LightTicks)

NextLight == LightFrame \/ update_lights

SpecLight == Init /\ [][NextLight]_vars

\* update_lights under nothing but presses of the decrease keys 5 and 9,
\* each of them pressed again and again.
ShrinkFrame(k) == BeginFrame({"update_lights"}, {Keys({k})}, {0}, 0)

ShrinkBoth == BeginFrame({"update_lights"}, {Keys({"Key5", "Key9"})}, {0}, 0)

NextShrink ==
    ShrinkFrame("Key5") \/ ShrinkFrame("Key9") \/ ShrinkBoth \/ update_lights

SpecShrink ==
    /\ Init
    /\ [][NextShrink]_vars
    /\ SF_vars(ShrinkFrame("Key5"))
    /\ SF_vars(ShrinkFrame("Key9"))
    /\ WF_ran(Turn("update_lights"))

\* camera_controller alone, on a camera spawned with the program's rotation
\* or another, under mouse look, the toggle key, movement, and an owner
\* that disables and enables the controller.
LookTicks == 3

SpawnRotations ==
    {spawn_rotation, Quat(0, -FRAC_PI_2, 0), Quat(-20000, 15600, 3000)}

LookInputs ==
    {NoInput,
     Hold({"W"}),
     Input({}, {}, TRUE, Vec2(3 * ONE, -2 * ONE)),
     Input({}, {}, TRUE, Vec2(5 * ONE, 0)),
     Input({}, {}, TRUE, Vec2(-1000 * ONE, 4000 * ONE)),
     Input({}, {}, FALSE, Vec2(-40 * ONE, 25 * ONE)),
     Input({"M"}, {}, FALSE, Vec2(-40 * ONE, 25 * ONE)),
     Input({}, {"M"}, FALSE, Vec2(0, -4000 * ONE)),
     Input({}, {"M"}, FALSE, Vec2ZERO),
     Input({"D", "LShift"}, {"M"}, TRUE, Vec2(3 * ONE, -2 * ONE))}

InitLook == \E q \in SpawnRotations : setup(q, default_friction)

LookFrame == BeginFrame({"camera_controller"}, LookInputs, {DT}, LookTicks)

NextLook == LookFrame \/ set_enabled \/ camera_controller

SpecLook == InitLook /\ [][NextLook]_vars

\* camera_controller alone under the movement keys: every direction the
\* six keys give, walking and running, and keys that cancel; with the
\* default friction, none, and full friction.
MoveTicks == 2

MoveInputs ==
    {Hold(x \cup y \cup z \cup r) :
        x \in {{}, {"D"}, {"A"}}, y \in {{}, {"E"}, {"Q"}},
        z \in {{}, {"W"}, {"S"}}, r \in {{}, {"LShift"}}}
    \cup {Hold({"W", "S"}), Hold({"A", "D", "E"}),
          Hold({"W", "S", "Q", "LShift"})}

InitMove == \E f \in {default_friction, 0, ONE} : setup(spawn_rotation, f)

MoveFrame == BeginFrame({"camera_controller"}, MoveInputs, {DT}, MoveTicks)

NextMove == MoveFrame \/ camera_controller

SpecMove == InitMove /\ [][NextMove]_vars

\* camera_controller alone, run for ever, of a controller constructed with
\* one of several frictions, two of them outside [0, 1]: at most DecayTicks
\* frames with movement keys held, among frames without any input, which
\* never cease to come; the system has its turn in every frame.
DecayTicks == 2

Frictions == {0, ONE \div 8, ONE \div 2, ONE, -(ONE \div 2), 3 * (ONE \div 2)}

InitDecay == \E f \in Frictions : setup(spawn_rotation, f)

KeysHeldFrame ==
    BeginFrame({"camera_controller"},
               {Hold({"W"}), Hold({"D", "E", "LShift"})}, {DT}, DecayTicks)

IdleFrame == BeginFrame({"camera_controller"}, {NoInput}, {0, DT}, DecayTicks)

NextDecay == KeysHeldFrame \/ IdleFrame \/ camera_controller

SpecDecay ==
    /\ InitDecay
    /\ [][NextDecay]_vars
    /\ WF_vars(IdleFrame)
    /\ WF_ran(Turn("camera_controller"))

\* ------------------------------------------------------------ properties

\* A step of update_lights, of camera_controller.
LightStep == "update_lights" \notin ran /\ "update_lights" \in ran'

CameraStep == "camera_controller" \notin ran /\ "camera_controller" \in ran'

LightRan == "update_lights" \in ran

CameraRan == "camera_controller" \in ran

Projection == light.shadow_projection

\* C6, as claimed: on a frame with U just pressed update_lights negates
\* shadows_enabled and leaves the six frustum bounds as they were, whatever
\* else is pressed; on a frame without, shadows_enabled keeps its value.
C6_AsClaimed ==
    [][LightStep =>
         IF "U" \in input.just_pressed
         THEN /\ light'.shadows_enabled = ~light.shadows_enabled
              /\ light'.shadow_projection = light.shadow_projection
         ELSE light'.shadows_enabled = light.shadows_enabled]_vars

\* C6, amended: on a frame with U just pressed update_lights negates
\* shadows_enabled, and leaves the six frustum bounds as they were when none
\* of the frustum keys 5..0 is just pressed in that frame; on a frame
\* without U just pressed, shadows_enabled keeps its value.
C6_ShadowToggle ==
    [][LightStep =>
         IF "U" \in input.just_pressed
         THEN /\ light'.shadows_enabled = ~light.shadows_enabled
              /\ input.just_pressed \cap FrustumKeys = {}
                    => light'.shadow_projection = light.shadow_projection
         ELSE light'.shadows_enabled = light.shadows_enabled]_vars

\* The shadows were switched on and off again by two frames with U, the
\* second with L as well, and the bounds are those of setup.
C6_Witness ==
    /\ LightRan
    /\ {"U", "L"} \subseteq input.just_pressed
    /\ input.just_pressed \cap FrustumKeys = {}
    /\ time.seconds_since_startup > time.delta_seconds
    /\ ~light.shadows_enabled
    /\ animate_directional_light
    /\ Projection.left = aabb_min /\ Projection.far = aabb_max

\* The factors C8 allows an axis: 1 - 0.1 with its decrease key, 1 + 0.1
\* with its increase key, both applied with both keys, 1 with neither.
ClaimedFactors(dec, inc, just) ==
    IF dec \in just /\ inc \in just
        THEN {ONE, Mul(ONE - SCALE_STEP, ONE + SCALE_STEP)}
    ELSE IF dec \in just THEN {ONE - SCALE_STEP}
    ELSE IF inc \in just THEN {ONE + SCALE_STEP}
    ELSE {ONE}

\* C8: every frustum key just pressed in a frame is applied: left and right
\* are multiplied by the factor of keys 5 and 6, bottom and top by that of
\* keys 7 and 8, near and far by that of keys 9 and 0, each axis
\* independently of the keys of the other two.
C8_EveryKeyApplied ==
    [][LightStep =>
         \E fx \in ClaimedFactors("Key5", "Key6", input.just_pressed),
            fy \in ClaimedFactors("Key7", "Key8", input.just_pressed),
            fz \in ClaimedFactors("Key9", "Key0", input.just_pressed) :
             /\ light'.shadow_projection.left = Mul(Projection.left, fx)
             /\ light'.shadow_projection.right = Mul(Projection.right, fx)
             /\ light'.shadow_projection.bottom = Mul(Projection.bottom, fy)
             /\ light'.shadow_projection.top = Mul(Projection.top, fy)
             /\ light'.shadow_projection.near = Mul(Projection.near, fz)
             /\ light'.shadow_projection.far = Mul(Projection.far, fz)]_vars

\* Some bound that setup made positive is zero or negative, or one it made
\* negative is zero or positive.
Crossed ==
    \/ Projection.left >= 0 \/ Projection.bottom >= 0 \/ Projection.near >= 0
    \/ Projection.right <= 0 \/ Projection.top <= 0 \/ Projection.far <= 0

\* C9, as claimed: repeated presses of the decrease keys drive a bound
\* through zero.  A bound is a function of the number of decreases of its
\* axis, so a number of presses that crossed a bound would cross it in
\* every run that presses each decrease key again and again.
C9_AsClaimed == <>Crossed

\* C9, amended: no sequence of decrease presses changes the sign of a
\* bound or makes it zero: left, bottom and near stay negative, right, top
\* and far stay positive.
C9_SignKept == ~Crossed

\* Decreases have shrunk left and right to less than a thousandth of a unit,
\* where a further decrease no longer changes them.
C9_Witness ==
    /\ LightRan
    /\ "Key5" \in input.just_pressed
    /\ 0 < Projection.right /\ Projection.right < 10
    /\ -10 < Projection.left /\ Projection.left < 0
    /\ Mul(Projection.right, ONE - SCALE_STEP) = Projection.right
    /\ Projection.far < aabb_max

\* The orientation update_lights derives from the clock: a turn about the
\* vertical axis every 30 seconds (to the nearest representable angle or
\* the one next to it), tilted down by an eighth of a turn, no roll.
TimeDerived(q, t) ==
    /\ Abs(q.yaw - RoundDiv(t.seconds_since_startup * TAU, 30 * ONE)) <= 1
    /\ q.pitch = -(TAU \div 8)
    /\ q.roll = 0

\* C10: the animate flag starts false, is negated by exactly the frames of
\* update_lights with L just pressed and changed by no other step; a frame
\* of update_lights that leaves it true sets the light's rotation to the
\* time-derived orientation, one that leaves it false leaves the light's
\* transform alone, whatever frustum or shadow keys are pressed.
C10_AnimateFlag ==
    /\ ~animate_directional_light
    /\ [][IF LightStep
          THEN /\ animate_directional_light' =
                    (animate_directional_light # ("L" \in input.just_pressed))
               /\ animate_directional_light' =>
                    TimeDerived(light_transform'.rotation, time)
               /\ ~animate_directional_light' =>
                    light_transform' = light_transform
          ELSE animate_directional_light' = animate_directional_light]_vars

\* In a frame with L, U and a frustum key just pressed the flag went on
\* and the light was turned; the camera has run in the same frame.
C10_Witness ==
    /\ LightRan /\ CameraRan
    /\ {"L", "U", "Key8"} \subseteq input.just_pressed
    /\ animate_directional_light
    /\ time.seconds_since_startup >= 2 * DT
    /\ light_transform.rotation.yaw > 0
    /\ light_transform.rotation.pitch < 0

\* C1: a frame of camera_controller on a disabled controller changes
\* nothing if the controller is initialized: velocity, pitch, yaw, the
\* initialized flag, the camera's translation and rotation and the latch
\* keep their values, whatever the frame's input.  On a controller not yet
\* initialized it changes yaw, pitch and initialized and nothing else.
C1_DisabledFrame ==
    [][CameraStep /\ ~options.enabled =>
         /\ transform' = transform
         /\ move_toggled' = move_toggled
         /\ options'.initialized
         /\ IF options.initialized
            THEN options' = options
            ELSE options' = [options EXCEPT !.yaw = options'.yaw,
                                            !.pitch = options'.pitch,
                                            !.initialized = TRUE]]_vars

\* A disabled, initialized controller has run in a frame with movement and
\* run keys held, the toggle key just pressed, the button held and the
\* mouse moved, while the camera was moving.
C1_Witness ==
    /\ CameraRan
    /\ ~options.enabled
    /\ time.seconds_since_startup >= 2 * DT
    /\ {"D", "LShift"} \subseteq input.pressed
    /\ "M" \in input.just_pressed
    /\ input.mouse_left
    /\ input.mouse_delta # Vec2ZERO
    /\ options.velocity # Vec3ZERO
    /\ Len(toggle_log) > 0
    /\ ~toggle_log[Len(toggle_log)].enabled

EnabledToggles == SelectSeq(toggle_log, LAMBDA e : e.enabled)

\* C5, as claimed: of any two successive frames with the toggle key just
\* pressed, the second leaves the latch as it was before the first,
\* whatever frames lie between them.
C5_AsClaimed ==
    \A i \in 1 .. Len(toggle_log) - 1 :
        toggle_log[i + 1].after = toggle_log[i].before

\* C5, amended: of any two successive frames with the toggle key just
\* pressed on an enabled controller, the second leaves the latch as it was
\* before the first, whatever frames lie between them, frames of a disabled
\* controller with the key pressed included.
C5_ToggleTwice ==
    \A i \in 1 .. Len(EnabledToggles) - 1 :
        EnabledToggles[i + 1].after = EnabledToggles[i].before

\* The key was pressed on an enabled controller, then on a disabled one,
\* then on an enabled one again.
C5_Witness ==
    /\ Len(toggle_log) = 3
    /\ toggle_log[1].enabled
    /\ ~toggle_log[2].enabled
    /\ toggle_log[3].enabled
    /\ toggle_log[3].after = toggle_log[1].before

\* The angles a frame starts from: the stored ones, or on the frame that
\* initializes the controller those of the camera's rotation.
StartYaw == IF options.initialized THEN options.yaw ELSE transform.rotation.yaw

StartPitch ==
    IF options.initialized THEN options.pitch ELSE transform.rotation.pitch

\* delta.x * sensitivity * dt and delta.y * 0.5 * sensitivity * dt
YawTurn ==
    Mul(Mul(input.mouse_delta.x, options.sensitivity), time.delta_seconds)

PitchTurn ==
    Mul(Mul(Mul(input.mouse_delta.y, ONE \div 2), options.sensitivity),
        time.delta_seconds)

\* Two angles that differ by no more than one rounding.
Near(a, b) == Abs(a - b) <= 1

\* The look update C7 describes, from the angles yaw and pitch.
LookedFrom(yaw, pitch) ==
    /\ Near(options'.yaw, yaw - YawTurn)
    /\ Near(options'.pitch, Clamp(pitch - PitchTurn, -pitch_limit, pitch_limit))

\* C7, as claimed: on any frame with the button not held and the latch
\* false after the frame's toggle press, pitch, yaw and the camera's
\* rotation keep their values; on any frame with the button held or the
\* latch true, and a non-zero motion delta, yaw decreases by
\* delta.x * sensitivity * dt and pitch by delta.y * 0.5 * sensitivity * dt,
\* clamped.
C7_AsClaimed ==
    [][CameraStep =>
         /\ ~input.mouse_left /\ ~move_toggled' =>
               /\ options'.pitch = options.pitch
               /\ options'.yaw = options.yaw
               /\ transform'.rotation = transform.rotation
         /\ (input.mouse_left \/ move_toggled')
            /\ input.mouse_delta # Vec2ZERO =>
               LookedFrom(options.yaw, options.pitch)]_vars

\* C7, amended: on any frame with the button not held and the latch false
\* after the frame, the camera's rotation keeps its value, and so do pitch
\* and yaw of an initialized controller; on a frame of an enabled
\* controller with the button held or the latch true after the toggle
\* press, and a non-zero motion delta, yaw decreases by
\* delta.x * sensitivity * dt and pitch by delta.y * 0.5 * sensitivity * dt,
\* clamped, from the angles the frame starts from.
C7_MouseLook ==
    [][CameraStep =>
         /\ ~input.mouse_left /\ ~move_toggled' =>
               /\ transform'.rotation = transform.rotation
               /\ options.initialized =>
                     /\ options'.pitch = options.pitch
                     /\ options'.yaw = options.yaw
         /\ options.enabled
            /\ (input.mouse_left \/ move_toggled')
            /\ input.mouse_delta # Vec2ZERO =>
               LookedFrom(StartYaw, StartPitch)]_vars

\* With the button up and the latch on, the mouse has turned the camera;
\* in an earlier frame the mouse moved while look was off.
C7_Witness ==
    /\ CameraRan
    /\ options.enabled
    /\ ~input.mouse_left
    /\ move_toggled
    /\ input.mouse_delta = Vec2(-40 * ONE, 25 * ONE)
    /\ time.seconds_since_startup >= 2 * DT
    /\ options.yaw = spawn_rotation.yaw + 4000
    /\ options.pitch = spawn_rotation.pitch - 1250
    /\ transform.rotation.yaw = options.yaw

\* No movement key is held, or the held ones cancel.
Idle == input.pressed \cap MoveKeys \in {{}, {"W", "S"}, {"A", "D"}, {"E", "Q"}}

Still == options.velocity = Vec3ZERO

\* C3, as claimed: with any friction in [0, 1], both ends included, once
\* the movement input is zero on every frame the velocity becomes exactly
\* zero after finitely many frames and stays zero.
C3_AsClaimed ==
    (options.friction >= 0 /\ options.friction <= ONE) => <>[]Still

\* C3, amended: with any friction in (0, 1] (one that 1 - friction does
\* not round to 1), once the movement input is zero on every frame the
\* velocity becomes exactly zero after finitely many frames and stays zero.
C3_Decay ==
    (options.friction > 0 /\ options.friction <= ONE) => <>[]Still

\* Friction has brought a moving camera to rest: the last frame, without
\* movement input, took a velocity below the snap threshold to zero, and
\* the camera is no longer where it was spawned.
C3_Witness ==
    /\ CameraRan
    /\ Idle
    /\ Still
    /\ options.friction = ONE \div 8
    /\ transform.translation # spawn_translation

\* The direction of a held pair of keys: +1, -1, or 0 for none or both.
Axis(pos, neg) ==
    (IF pos \in input.pressed THEN 1 ELSE 0)
        - (IF neg \in input.pressed THEN 1 ELSE 0)

AxisCount ==
    Abs(Axis("D", "A")) + Abs(Axis("E", "Q")) + Abs(Axis("W", "S"))

\* The magnitude of a velocity, to a thousandth of a unit.
Speed(v) ==
    10 * SqrtIter((v.x \div 10) * (v.x \div 10) + (v.y \div 10) * (v.y \div 10)
                      + (v.z \div 10) * (v.z \div 10), 0, 4 * ONE)

TargetSpeed ==
    IF "LShift" \in input.pressed THEN default_run_speed
    ELSE default_walk_speed

\* C4: after a frame of an enabled controller with a non-zero movement
\* input the velocity points along the input (each component has the sign
\* of its axis, the components of the held axes are equal in size) and its
\* magnitude is run_speed with the run key held and walk_speed without:
\* exactly for an input along one axis, else to the rounding of the
\* normalisation; whatever the velocity and the friction were.
C4_InputVelocity ==
    CameraRan /\ options.enabled /\ AxisCount > 0 =>
        LET v == options.velocity
        IN  /\ Sign(v.x) = Axis("D", "A")
            /\ Sign(v.y) = Axis("E", "Q")
            /\ Sign(v.z) = Axis("W", "S")
            /\ \A a, b \in {Abs(v.x), Abs(v.y), Abs(v.z)} \ {0} : a = b
            /\ Abs(Speed(v) - TargetSpeed) <= 20
            /\ AxisCount = 1 =>
                  Abs(v.x) + Abs(v.y) + Abs(v.z) = TargetSpeed

\* A camera that was running along one diagonal walks along another in the
\* next frame, at about walk_speed / sqrt(3) on each axis.
C4_Witness ==
    /\ CameraRan
    /\ time.seconds_since_startup = 2 * DT
    /\ input.pressed = {"A", "Q", "S"}
    /\ options.velocity.x = options.velocity.z
    /\ options.velocity.x < -28000 /\ options.velocity.x > -29000
    /\ transform.translation.y > spawn_translation.y
    /\ options.friction = 0

====
